---- MODULE Spec2Model ----
(***************************************************************************)
(* Model of astexplorer-syn.                                               *)
(*                                                                         *)
(*   build.rs    the schema types (Definitions, Node, Data, Type) and the  *)
(*               generator that writes one `impl ToJS` per node and token  *)
(*   src/lib.rs  the js! macro, the hand-written ToJS impls and the three  *)
(*               exported entry points                                     *)
(*                                                                         *)
(* A JsValue that is an Object is modelled by the log of the set / set_i   *)
(* calls made on it, in call order; an Array by the sequence of pushed     *)
(* values.                                                                 *)
(***************************************************************************)
EXTENDS Integers, Sequences, FiniteSets, TLC

VARIABLES
    defs,      \* the Definitions that build.rs deserializes from the schema
    to_js_rs,  \* the generated file: one impl per node and per token
    pc,        \* "build" before main of build.rs has run, "ready" after
    call,      \* the last call made into the crate, with its input
    out        \* what that call returned

vars == <<defs, to_js_rs, pc, call, out>>

(***************************************************************************)
(* Bounds of the model.                                                    *)
(***************************************************************************)
MaxFields == 3
MaxPayload == 3
MaxVariants == 2
MaxLen == 4
MaxLine == 2

(***************************************************************************)
(* build.rs: the schema types.                                             *)
(***************************************************************************)
\* enum Type: the shapes used by the schemas below.
TSyn(id) == [ty |-> "Syn", id |-> id]
TStd(id) == [ty |-> "Std", id |-> id]
TToken(id) == [ty |-> "Token", id |-> id]
TGroup(id) == [ty |-> "Group", id |-> id]

\* struct Node { ident, data }
Node(ident, data) == [ident |-> ident, data |-> data]

\* enum Data
Private == [kind |-> "Private"]
Struct(fields) == [kind |-> "Struct", fields |-> fields]
Enum(variants) == [kind |-> "Enum", variants |-> variants]

\* has_spanned: the manual blacklist of nodes without a Spanned impl.
has_spanned_NoQSelf(ty) == ty \notin {"DataStruct", "DataEnum", "DataUnion", "FnDecl"}
has_spanned(ty) == ty \notin {"DataStruct", "DataEnum", "DataUnion", "FnDecl", "QSelf"}

\* The key closure handed to sort_by_key: 1 for groups, 0 for the rest.
sort_key_NoGroupArm(ty) ==
    IF ty.ty = "Syn" /\ ty.id = "MacroDelimiter" THEN 1 ELSE 0

sort_key(ty) ==
    IF ty.ty = "Group" THEN 1
    ELSE IF ty.ty = "Syn" /\ ty.id = "MacroDelimiter" THEN 1
    ELSE 0

\* slice::sort_by_key is a stable sort: an element is placed behind every
\* element whose key is not greater than its own.
RECURSIVE InsertLast(_, _)
InsertLast(sorted, x) ==
    IF sorted = <<>> THEN <<x>>
    ELSE IF sort_key(Head(sorted).ty) <= sort_key(x.ty)
         THEN <<Head(sorted)>> \o InsertLast(Tail(sorted), x)
         ELSE <<x>> \o sorted

RECURSIVE InsertFirst(_, _)
InsertFirst(sorted, x) ==
    IF sorted = <<>> THEN <<x>>
    ELSE IF sort_key(Head(sorted).ty) < sort_key(x.ty)
         THEN <<Head(sorted)>> \o InsertFirst(Tail(sorted), x)
         ELSE <<x>> \o sorted

RECURSIVE sort_by_key_Unstable(_)
sort_by_key_Unstable(fields) ==
    IF fields = <<>> THEN <<>>
    ELSE InsertFirst(sort_by_key_Unstable(SubSeq(fields, 1, Len(fields) - 1)),
                     fields[Len(fields)])

RECURSIVE sort_by_key(_)
sort_by_key(fields) ==
    IF fields = <<>> THEN <<>>
    ELSE InsertLast(sort_by_key(SubSeq(fields, 1, Len(fields) - 1)),
                    fields[Len(fields)])

(***************************************************************************)
(* build.rs: the generated code.  An expression of a generated routine is  *)
(* self.<field>, self.span(), self.value() or a pattern binding x<i>; a    *)
(* js! invocation is its type path, its named entries and its optional     *)
(* bracketed item list.                                                    *)
(***************************************************************************)
SelfField(name) == [e |-> "field", name |-> name, i |-> 0]
SelfSpan == [e |-> "span", name |-> "", i |-> 0]
SelfValue == [e |-> "value", name |-> "", i |-> 0]
Binding(i) == [e |-> "bind", name |-> "x" \o ToString(i), i |-> i]

Entry(name, value) == [name |-> name, value |-> value]

JsInvoke(ty, variant, named, hasItems, items) ==
    [form |-> "js", ty |-> ty, variant |-> variant, named |-> named,
     hasItems |-> hasItems, items |-> items]

\* Data::Private
GenPrivate(ident) ==
    JsInvoke(ident, "", <<Entry("value", SelfValue), Entry("span", SelfSpan)>>,
             FALSE, <<>>)

\* Data::Struct: the sorted fields, chained with the span entry.
GenStruct(ident, fields) ==
    LET sorted == sort_by_key(fields)
        named == [i \in 1..Len(sorted) |->
                     Entry(sorted[i].name, SelfField(sorted[i].name))]
    IN JsInvoke(ident, "",
                named \o (IF has_spanned(ident)
                          THEN <<Entry("span", SelfSpan)>> ELSE <<>>),
                FALSE, <<>>)

\* One match arm of Data::Enum, by the number of payload types.
GenArm_DropLast(ident, v) ==
    LET k == Len(v.types) IN
    IF k = 0 THEN [pat |-> v.name, k |-> 0,
                   rhs |-> JsInvoke(ident, v.name, <<>>, FALSE, <<>>)]
    ELSE IF k = 1 THEN [pat |-> v.name, k |-> 1,
                        rhs |-> [form |-> "to_js", x |-> Binding(0)]]
    ELSE [pat |-> v.name, k |-> k,
          rhs |-> JsInvoke(ident, v.name, <<Entry("span", SelfSpan)>>,
                           TRUE, [i \in 1..(k - 1) |-> Binding(i - 1)])]

GenArm(ident, v) ==
    LET k == Len(v.types) IN
    IF k = 0 THEN [pat |-> v.name, k |-> 0,
                   rhs |-> JsInvoke(ident, v.name, <<>>, FALSE, <<>>)]
    ELSE IF k = 1 THEN [pat |-> v.name, k |-> 1,
                        rhs |-> [form |-> "to_js", x |-> Binding(0)]]
    ELSE [pat |-> v.name, k |-> k,
          rhs |-> JsInvoke(ident, v.name, <<Entry("span", SelfSpan)>>,
                           TRUE, [i \in 1..k |-> Binding(i - 1)])]

\* Data::Enum
GenEnum(ident, variants) ==
    [form |-> "match",
     arms |-> [i \in 1..Len(variants) |-> GenArm(ident, variants[i])]]

\* impl ToTokens for Node
NodeToTokens(node) ==
    [impl |-> "syn::" \o node.ident,
     body |-> CASE node.data.kind = "Private" -> GenPrivate(node.ident)
                [] node.data.kind = "Struct" ->
                       GenStruct(node.ident, node.data.fields)
                [] node.data.kind = "Enum" ->
                       GenEnum(node.ident, node.data.variants)]

\* The impl written for one key of Definitions.tokens.
TokenToTokens(key) ==
    [impl |-> "syn::token::" \o key,
     body |-> JsInvoke(key, "", <<Entry("span", SelfSpan)>>, FALSE, <<>>)]

\* impl ToTokens for Definitions: all the nodes, then one impl per token.
DefinitionsToTokens(d) ==
    [i \in 1..Len(d.types) |-> NodeToTokens(d.types[i])]
    \o [i \in 1..Len(d.tokens) |-> TokenToTokens(d.tokens[i].ident)]

(***************************************************************************)
(* src/lib.rs: JsValue, Object and Array as the conversion uses them.      *)
(***************************************************************************)
UNDEFINED == [js |-> "undefined"]
JsNumber(n) == [js |-> "number", v |-> n]
\* A string is its text and, when it is a serialised tree, the tree it encodes.
JsString(s) == [js |-> "string", v |-> s, doc |-> <<>>]

\* A property key written by Object::set (a name) or Object::set_i (an index).
Name(s) == [k |-> "name", name |-> s, idx |-> 0]
Index(i) == [k |-> "idx", name |-> "", idx |-> i]

\* Object::new, Object::set and Object::set_i
ObjectNew == [js |-> "Object", sets |-> <<>>]
set(obj, key, value) ==
    [obj EXCEPT !.sets = Append(@, [key |-> Name(key), value |-> value])]
set_i(obj, key, value) ==
    [obj EXCEPT !.sets = Append(@, [key |-> Index(key), value |-> value])]

\* Array::new and Array::push
ArrayNew == [js |-> "Array", items |-> <<>>]
push(arr, value) == [arr EXCEPT !.items = Append(@, value)]

\* fn new_object_with_type
new_object_with_type_NoTag(ty) == ObjectNew
new_object_with_type(ty) == set(ObjectNew, "_type", JsString(ty))

(***************************************************************************)
(* src/lib.rs: the values of the native tree.                              *)
(***************************************************************************)
LineColumn(line, column) == [rs |-> "LineColumn", line |-> line, column |-> column]
Span(start, end) == [rs |-> "Span", start |-> start, end |-> end]
U32(n) == [rs |-> "u32", v |-> n]
RString(s) == [rs |-> "String", v |-> s, doc |-> <<>>]
None == [rs |-> "Option", some |-> <<>>]
Some(v) == [rs |-> "Option", some |-> <<v>>]
Vec(items) == [rs |-> "Vec", items |-> items]
Tuple(items) == [rs |-> "Tuple", items |-> items]
\* syn::punctuated::Punctuated { inner: Vec<(T, P)>, last: Option<Box<T>> }
Punctuated(inner, last) == [rs |-> "Punctuated", inner |-> inner, last |-> last]
\* syn::token::{Group, Paren, Brace, Bracket}
GroupToken(name, span) == [rs |-> "Group", name |-> name, span |-> span]
\* syn::token::<key> for a key of Definitions.tokens
Token(name, span) == [rs |-> "Token", name |-> name, span |-> span]
\* syn::<ident> for a node of Definitions.types
SynStruct(ident, fields, span) ==
    [rs |-> "Syn", ident |-> ident, kind |-> "Struct", fields |-> fields, span |-> span]
SynEnum(ident, variant, payload, span) ==
    [rs |-> "Syn", ident |-> ident, kind |-> "Enum", variant |-> variant,
     payload |-> payload, span |-> span]
SynPrivate(ident, value, span) ==
    [rs |-> "Syn", ident |-> ident, kind |-> "Private", value |-> value, span |-> span]

\* Punctuated::pairs: Pair::Punctuated for each inner (T, P), Pair::End for last.
pairs(p) ==
    [i \in 1..Len(p.inner) |-> [value |-> p.inner[i][1], punct |-> <<p.inner[i][2]>>]]
    \o [i \in 1..Len(p.last) |-> [value |-> p.last[i], punct |-> <<>>]]

\* The impl of the generated file for a type path.
ImplFor(gen, path) ==
    LET i == CHOOSE i \in 1..Len(gen) : gen[i].impl = path IN gen[i].body

\* self.<field> of a struct value.
FieldOf(self, name) ==
    LET i == CHOOSE i \in 1..Len(self.fields) : self.fields[i].name = name
    IN self.fields[i].value

\* The value of an expression of a generated routine.
Eval(expr, self) ==
    CASE expr.e = "field" -> FieldOf(self, expr.name)
      [] expr.e = "span" -> self.span
      [] expr.e = "value" -> self.value
      [] expr.e = "bind" -> self.payload[expr.i + 1]

\* concat!(stringify!($ty) $(, "::", stringify!($variant))?)
TypePath(ty, variant) == IF variant = "" THEN ty ELSE ty \o "::" \o variant

(***************************************************************************)
(* src/lib.rs: trait ToJS.  to_js(v, gen) is v.to_js() in a crate whose    *)
(* generated file is gen.                                                  *)
(***************************************************************************)
RECURSIVE to_js(_, _)

\* js!([a, b, ...]): an Array of the converted values.
JsArray(values, gen) ==
    LET RECURSIVE loop(_, _)
        loop(arr, rest) ==
            IF rest = <<>> THEN arr
            ELSE loop(push(arr, to_js(Head(rest), gen)), Tail(rest))
    IN loop(ArrayNew, values)

\* impl ToJS for [T]: push each converted item, in order.
SliceToJs_Reversed(items, gen) ==
    LET RECURSIVE loop(_, _)
        loop(arr, rest) ==
            IF rest = <<>> THEN arr
            ELSE loop(push(arr, to_js(rest[Len(rest)], gen)),
                      SubSeq(rest, 1, Len(rest) - 1))
    IN loop(ArrayNew, items)

SliceToJs(items, gen) ==
    LET RECURSIVE loop(_, _)
        loop(arr, rest) ==
            IF rest = <<>> THEN arr
            ELSE loop(push(arr, to_js(Head(rest), gen)), Tail(rest))
    IN loop(ArrayNew, items)

\* js!(Ty::Variant { name: value, ... } [item, ...]): the tagged object, the
\* named entries, then the items under a running index and the length.
JsObject(inv, self, gen) ==
    LET obj0 == new_object_with_type(TypePath(inv.ty, inv.variant))
        RECURSIVE named(_, _)
        named(obj, rest) ==
            IF rest = <<>> THEN obj
            ELSE named(set(obj, Head(rest).name,
                           to_js(Eval(Head(rest).value, self), gen)),
                       Tail(rest))
        RECURSIVE items(_, _, _)
        items(obj, i, rest) ==
            IF rest = <<>> THEN set(obj, "length", to_js(U32(i), gen))
            ELSE items(set_i(obj, i, to_js(Eval(Head(rest), self), gen)),
                       i + 1, Tail(rest))
        obj1 == named(obj0, inv.named)
    IN IF inv.hasItems THEN items(obj1, 0, inv.items) ELSE obj1

\* impl ToJS for syn::punctuated::Punctuated<T, P>
PunctuatedToJs_PunctNotCounted(p, gen) ==
    LET RECURSIVE loop(_, _, _)
        loop(obj, i, rest) ==
            IF rest = <<>> THEN set(obj, "length", to_js(U32(i), gen))
            ELSE LET item == Head(rest)
                     o1 == set_i(obj, i, to_js(item.value, gen))
                 IN IF item.punct # <<>>
                    THEN loop(set_i(o1, i + 1, to_js(item.punct[1], gen)),
                              i + 1, Tail(rest))
                    ELSE loop(o1, i + 1, Tail(rest))
    IN loop(new_object_with_type("Punctuated"), 0, pairs(p))

PunctuatedToJs(p, gen) ==
    LET RECURSIVE loop(_, _, _)
        loop(obj, i, rest) ==
            IF rest = <<>> THEN set(obj, "length", to_js(U32(i), gen))
            ELSE LET item == Head(rest)
                     o1 == set_i(obj, i, to_js(item.value, gen))
                 IN IF item.punct # <<>>
                    THEN loop(set_i(o1, i + 1, to_js(item.punct[1], gen)),
                              i + 2, Tail(rest))
                    ELSE loop(o1, i + 1, Tail(rest))
    IN loop(new_object_with_type("Punctuated"), 0, pairs(p))

\* The body of a generated impl, run on self.
RunImpl(body, self, gen) ==
    IF body.form = "js" THEN JsObject(body, self, gen)
    ELSE LET i == CHOOSE i \in 1..Len(body.arms) : body.arms[i].pat = self.variant
             rhs == body.arms[i].rhs
         IN IF rhs.form = "to_js" THEN to_js(Eval(rhs.x, self), gen)
            ELSE JsObject(rhs, self, gen)

to_js(v, gen) ==
    CASE v.rs = "u32" -> JsNumber(v.v)
      [] v.rs = "String" -> [js |-> "string", v |-> v.v, doc |-> v.doc]
      [] v.rs = "Option" -> IF v.some = <<>> THEN UNDEFINED ELSE to_js(v.some[1], gen)
      [] v.rs = "Vec" -> SliceToJs(v.items, gen)
      [] v.rs = "Tuple" -> JsArray(v.items, gen)
      [] v.rs = "LineColumn" ->
             JsObject(JsInvoke("LineColumn", "",
                               <<Entry("line", SelfField("line")),
                                 Entry("column", SelfField("column"))>>, FALSE, <<>>),
                      [fields |-> <<Entry("line", U32(v.line)),
                                    Entry("column", U32(v.column))>>], gen)
      [] v.rs = "Span" ->
             JsObject(JsInvoke("Span", "",
                               <<Entry("start", SelfField("start")),
                                 Entry("end", SelfField("end"))>>, FALSE, <<>>),
                      [fields |-> <<Entry("start", v.start), Entry("end", v.end)>>],
                      gen)
      [] v.rs = "Punctuated" -> PunctuatedToJs(v, gen)
      [] v.rs = "Group" ->
             JsObject(JsInvoke(v.name, "", <<Entry("span", SelfSpan)>>, FALSE, <<>>),
                      v, gen)
      [] v.rs = "Token" -> RunImpl(ImplFor(gen, "syn::token::" \o v.name), v, gen)
      [] v.rs = "Syn" -> RunImpl(ImplFor(gen, "syn::" \o v.ident), v, gen)

(***************************************************************************)
(* The schemas and native values the model draws its inputs from.          *)
(***************************************************************************)
FieldTypes == {TGroup("Brace"), TSyn("MacroDelimiter"), TToken("Semi"), TStd("u32")}
FieldName(i) == "f" \o ToString(i)

\* Fields = IndexMap<Ident, Type>: distinct names, in declaration order.
FieldLists ==
    UNION {{[i \in 1..n |-> [name |-> FieldName(i), ty |-> tys[i]]] :
               tys \in [1..n -> FieldTypes]} : n \in 0..MaxFields}

StructIdents == {"ItemStruct", "DataStruct", "DataEnum", "DataUnion", "FnDecl", "QSelf"}

\* Payload types of a variant: u32 and a token, alternating from either one.
PayloadTypes == <<TStd("u32"), TToken("Semi")>>
PayloadLists ==
    {<<>>} \cup
    {[i \in 1..k |-> PayloadTypes[((i + r) % 2) + 1]] :
        k \in 1..MaxPayload, r \in 0..1}

\* Variants = IndexMap<Ident, Vec<Type>>
VariantLists ==
    UNION {{[i \in 1..n |-> [name |-> "V" \o ToString(i), types |-> ps[i]]] :
               ps \in [1..n -> PayloadLists]} : n \in 1..MaxVariants}

Nodes ==
    {Node(id, Struct(fs)) : id \in StructIdents, fs \in FieldLists}
    \cup {Node("Expr", Enum(vs)) : vs \in VariantLists}
    \cup {Node("LitStr", Private)}

\* syn's MacroDelimiter, which the Syn("MacroDelimiter") fields refer to.
MacroDelimiterNode ==
    Node("MacroDelimiter",
         Enum(<<[name |-> "Paren", types |-> <<TGroup("Paren")>>],
                [name |-> "Brace", types |-> <<TGroup("Brace")>>],
                [name |-> "Bracket", types |-> <<TGroup("Bracket")>>]>>))

TokenCatalog == <<[ident |-> "Semi", repr |-> ";"], [ident |-> "Comma", repr |-> ","]>>

\* struct Definitions { types, tokens }
Definitions(types) == [types |-> types, tokens |-> TokenCatalog]

Schemas == {Definitions(<<n, MacroDelimiterNode>>) : n \in Nodes}

\* Positions: lines are 1-based, columns 0-based.
Spans ==
    {Span(LineColumn(1, 0), LineColumn(1, 4)), Span(LineColumn(2, 4), LineColumn(3, 1))}

\* A native value of a schema type, for the i-th field or payload.
ValueOf(ty, i, sp) ==
    CASE ty.ty = "Group" -> GroupToken(ty.id, sp)
      [] ty.ty = "Token" -> Token(ty.id, sp)
      [] ty.ty = "Std" -> U32(i)
      [] ty.ty = "Syn" -> SynEnum("MacroDelimiter", "Brace", <<GroupToken("Brace", sp)>>, sp)

\* The native values of a node of the schema.
ValuesOfNode(node) ==
    CASE node.data.kind = "Private" ->
             {SynPrivate(node.ident, RString("lit"), sp) : sp \in Spans}
      [] node.data.kind = "Struct" ->
             {SynStruct(node.ident,
                        [i \in 1..Len(node.data.fields) |->
                            Entry(node.data.fields[i].name,
                                  ValueOf(node.data.fields[i].ty, i, sp))],
                        sp) : sp \in Spans}
      [] node.data.kind = "Enum" ->
             UNION {{SynEnum(node.ident, node.data.variants[j].name,
                             [i \in 1..Len(node.data.variants[j].types) |->
                                 ValueOf(node.data.variants[j].types[i], i, sp)],
                             sp) : sp \in Spans} :
                       j \in 1..Len(node.data.variants)}

(***************************************************************************)
(* The build step and the conversions of the generated impls.              *)
(***************************************************************************)
NoCall == [op |-> "none"]

Init ==
    /\ defs \in Schemas
    /\ to_js_rs = <<>>
    /\ pc = "build"
    /\ call = NoCall
    /\ out = UNDEFINED

\* fn main of build.rs: write the generated impls to to_js.rs.
Main ==
    /\ pc = "build"
    /\ to_js_rs' = DefinitionsToTokens(defs)
    /\ pc' = "ready"
    /\ UNCHANGED <<defs, call, out>>

\* <syn::#ident as ToJS>::to_js on a value of a node of the schema.
NodeToJs ==
    /\ pc = "ready"
    /\ \E i \in 1..Len(defs.types) : \E self \in ValuesOfNode(defs.types[i]) :
          /\ call' = [op |-> "to_js", of |-> "node", node |-> i, self |-> self]
          /\ out' = to_js(self, to_js_rs)
    /\ UNCHANGED <<defs, to_js_rs, pc>>

\* <syn::token::#key as ToJS>::to_js on a token of the schema.
TokenToJs ==
    /\ pc = "ready"
    /\ \E i \in 1..Len(defs.tokens) : \E sp \in Spans :
          LET self == Token(defs.tokens[i].ident, sp) IN
          /\ call' = [op |-> "to_js", of |-> "token", node |-> i, self |-> self]
          /\ out' = to_js(self, to_js_rs)
    /\ UNCHANGED <<defs, to_js_rs, pc>>

Next == Main \/ NodeToJs \/ TokenToJs

Spec == Init /\ [][Next]_vars

(***************************************************************************)
(* Properties of the generator and of the generated conversions.           *)
(***************************************************************************)
\* The call in progress converted a value of a node of the given kind.
NodeCall(kind) ==
    /\ call.op = "to_js"
    /\ call.of = "node"
    /\ defs.types[call.node].data.kind = kind

DeclaredFields == defs.types[call.node].data.fields

\* The names written on an object, in the order of the writes.
Written(obj) == [j \in 1..Len(obj.sets) |-> obj.sets[j].key]
HasKey(obj, key) == \E j \in 1..Len(obj.sets) : obj.sets[j].key = key
PosOf(obj, key) == CHOOSE j \in 1..Len(obj.sets) : obj.sets[j].key = key
ValueAt(obj, key) == obj.sets[PosOf(obj, key)].value

\* The _type tag of a Dynamic Value, "" when it carries none.
TagOf(v) ==
    IF v.js = "Object" /\ HasKey(v, Name("_type")) THEN ValueAt(v, Name("_type")).v
    ELSE ""

IsGroupTyped(f) == f.ty.ty = "Group"
IsMacroDelimiter(f) == f.ty.ty = "Syn" /\ f.ty.id = "MacroDelimiter"

\* C1 as stated: in the object a struct routine writes, every Group-typed
\* field is written after every field that is not Group-typed, and before the
\* span field.
C1_GroupAfterEveryNonGroup ==
    NodeCall("Struct") =>
        \A g \in 1..Len(DeclaredFields) :
            IsGroupTyped(DeclaredFields[g]) =>
                /\ \A f \in 1..Len(DeclaredFields) :
                      ~IsGroupTyped(DeclaredFields[f]) =>
                          PosOf(out, Name(DeclaredFields[f].name))
                              < PosOf(out, Name(DeclaredFields[g].name))
                /\ HasKey(out, Name("span")) =>
                      PosOf(out, Name(DeclaredFields[g].name)) < PosOf(out, Name("span"))

\* C1 amended: every Group-typed field is written after every field that is
\* neither Group-typed nor a Syn reference to MacroDelimiter, and before the
\* span field when the routine writes one.
C1_GroupAfterEveryUnmovedField ==
    NodeCall("Struct") =>
        \A g \in 1..Len(DeclaredFields) :
            IsGroupTyped(DeclaredFields[g]) =>
                /\ \A f \in 1..Len(DeclaredFields) :
                      (~IsGroupTyped(DeclaredFields[f])
                       /\ ~IsMacroDelimiter(DeclaredFields[f])) =>
                          PosOf(out, Name(DeclaredFields[f].name))
                              < PosOf(out, Name(DeclaredFields[g].name))
                /\ HasKey(out, Name("span")) =>
                      PosOf(out, Name(DeclaredFields[g].name)) < PosOf(out, Name("span"))

\* A struct with a span whose Group-typed field is declared before an unmoved
\* field has been converted.
C1_Witness ==
    /\ NodeCall("Struct")
    /\ HasKey(out, Name("span"))
    /\ \E g, f \in 1..Len(DeclaredFields) :
          /\ g < f
          /\ IsGroupTyped(DeclaredFields[g])
          /\ ~IsGroupTyped(DeclaredFields[f])
          /\ ~IsMacroDelimiter(DeclaredFields[f])

\* C3 as stated: every node and token has a generated routine, and what a
\* routine returns is tagged with the node or token identifier, except for a
\* single-payload variant, which returns the conversion of its payload.
C3_TagIsIdentifier ==
    /\ pc = "ready" =>
          /\ \A i \in 1..Len(defs.types) :
                \E j \in 1..Len(to_js_rs) :
                    to_js_rs[j].impl = "syn::" \o defs.types[i].ident
          /\ \A i \in 1..Len(defs.tokens) :
                \E j \in 1..Len(to_js_rs) :
                    to_js_rs[j].impl = "syn::token::" \o defs.tokens[i].ident
    /\ (call.op = "to_js" /\ call.of = "token") =>
          TagOf(out) = defs.tokens[call.node].ident
    /\ (call.op = "to_js" /\ call.of = "node") =>
          IF call.self.kind = "Enum" /\ Len(call.self.payload) = 1
          THEN out = to_js(call.self.payload[1], to_js_rs)
          ELSE TagOf(out) = defs.types[call.node].ident

\* C3 amended: as stated for Private and Struct nodes, tokens and
\* single-payload variants; a variant with no payload or with two or more is
\* tagged "EnumName::VariantName".
C3_TagIsIdentifierOrVariantPath ==
    /\ pc = "ready" =>
          /\ \A i \in 1..Len(defs.types) :
                \E j \in 1..Len(to_js_rs) :
                    to_js_rs[j].impl = "syn::" \o defs.types[i].ident
          /\ \A i \in 1..Len(defs.tokens) :
                \E j \in 1..Len(to_js_rs) :
                    to_js_rs[j].impl = "syn::token::" \o defs.tokens[i].ident
    /\ (call.op = "to_js" /\ call.of = "token") =>
          TagOf(out) = defs.tokens[call.node].ident
    /\ (call.op = "to_js" /\ call.of = "node") =>
          IF call.self.kind = "Enum"
          THEN IF Len(call.self.payload) = 1
               THEN out = to_js(call.self.payload[1], to_js_rs)
               ELSE TagOf(out) = defs.types[call.node].ident \o "::" \o call.self.variant
          ELSE TagOf(out) = defs.types[call.node].ident

\* A single-payload variant holding a token returned the token's own object.
C3_Witness ==
    /\ NodeCall("Enum")
    /\ call.self.ident = "Expr"
    /\ Len(call.self.payload) = 1
    /\ TagOf(out) = "Semi"

\* C8: a variant with k >= 2 payloads writes _type "EnumName::VariantName",
\* span, the converted payloads at indices 0..k-1 in declaration order, and
\* last of all length = k.
C8_MultiPayloadVariant ==
    (NodeCall("Enum") /\ Len(call.self.payload) >= 2) =>
        LET k == Len(call.self.payload) IN
        /\ out.js = "Object"
        /\ Written(out) =
               <<Name("_type"), Name("span")>>
               \o [i \in 1..k |-> Index(i - 1)]
               \o <<Name("length")>>
        /\ ValueAt(out, Name("_type")) =
               JsString(call.self.ident \o "::" \o call.self.variant)
        /\ ValueAt(out, Name("span")) = to_js(call.self.span, to_js_rs)
        /\ \A i \in 1..k :
              ValueAt(out, Index(i - 1)) = to_js(call.self.payload[i], to_js_rs)
        /\ ValueAt(out, Name("length")) = JsNumber(k)

\* A variant with three payloads has been converted.
C8_Witness ==
    /\ NodeCall("Enum")
    /\ Len(call.self.payload) = 3
    /\ HasKey(out, Index(2))

\* C9: a struct routine writes span, after all the declared fields, exactly
\* when the node is none of DataStruct, DataEnum, DataUnion, FnDecl, QSelf.
C9_SpanUnlessExcluded ==
    NodeCall("Struct") =>
        LET n == Len(DeclaredFields)
            excluded == call.self.ident \in
                            {"DataStruct", "DataEnum", "DataUnion", "FnDecl", "QSelf"}
        IN /\ HasKey(out, Name("span")) <=> ~excluded
           /\ ~excluded =>
                 /\ Len(out.sets) = n + 2
                 /\ out.sets[n + 2].key = Name("span")
                 /\ out.sets[n + 2].value = to_js(call.self.span, to_js_rs)
           /\ excluded => Len(out.sets) = n + 1

\* A QSelf with fields has been converted, and no span was written.
C9_Witness ==
    /\ NodeCall("Struct")
    /\ call.self.ident = "QSelf"
    /\ Len(DeclaredFields) >= 2
    /\ ~HasKey(out, Name("span"))

\* The fields of a generated struct routine, without the chained span entry.
EmittedFields(i) ==
    LET named == to_js_rs[i].body.named
    IN SelectSeq(named, LAMBDA e : e.value.e = "field")

IsMoved(f) == IsGroupTyped(f) \/ IsMacroDelimiter(f)

\* The declared fields that are moved, or kept, as names in declaration order.
DeclaredNames(i, moved) ==
    LET fs == SelectSeq(defs.types[i].data.fields, LAMBDA f : IsMoved(f) = moved)
    IN [j \in 1..Len(fs) |-> fs[j].name]

StablePartition(i) ==
    LET emitted == [j \in 1..Len(EmittedFields(i)) |-> EmittedFields(i)[j].name]
    IN emitted = DeclaredNames(i, FALSE) \o DeclaredNames(i, TRUE)

\* C10: the emitted fields of a struct routine are the declared fields, the
\* unmoved ones first and the moved ones (Group, Syn MacroDelimiter) last,
\* each part in declaration order; no step changes the schema.
C10_StablePartition ==
    [][/\ defs' = defs
       /\ pc' = "ready" =>
             \A i \in 1..Len(defs'.types) :
                 defs'.types[i].data.kind = "Struct" => StablePartition(i)']_vars

\* A routine was generated for a struct declaring a Group field, an unmoved
\* field and a MacroDelimiter field, in that order.
C10_Witness ==
    /\ pc = "ready"
    /\ defs.types[1].data.kind = "Struct"
    /\ Len(defs.types[1].data.fields) = 3
    /\ IsGroupTyped(defs.types[1].data.fields[1])
    /\ ~IsMoved(defs.types[1].data.fields[2])
    /\ IsMacroDelimiter(defs.types[1].data.fields[3])
    /\ EmittedFields(1)[1].name = "f2"

(***************************************************************************)
(* src/lib.rs: the conversions of the generic containers.                  *)
(***************************************************************************)
SeqsUpTo(S, n) == UNION {[1..m -> S] : m \in 0..n}

Elements == {U32(1), Token("Semi", Span(LineColumn(1, 0), LineColumn(1, 1)))}
Comma == Token("Comma", Span(LineColumn(1, 1), LineColumn(1, 2)))

\* Every Punctuated<T, P> of at most MaxLen (T, P) pairs, with or without a last T.
PunctuatedValues ==
    {Punctuated([i \in 1..Len(es) |-> <<es[i], Comma>>], last) :
        es \in SeqsUpTo(Elements, MaxLen),
        last \in {<<>>} \cup {<<e>> : e \in Elements}}

VecValues == {Vec(es) : es \in SeqsUpTo(Elements, MaxLen)}

\* The tuples with a ToJS impl: (A, B) and (A, B, C).
TupleValues == {Tuple(es) : es \in [1..2 -> Elements] \cup [1..3 -> Elements]}

InitConv ==
    /\ defs = Definitions(<<MacroDelimiterNode>>)
    /\ to_js_rs = <<>>
    /\ pc = "build"
    /\ call = NoCall
    /\ out = UNDEFINED

\* <Vec<T> as ToJS>::to_js
VecToJs ==
    /\ pc = "ready"
    /\ \E self \in VecValues :
          /\ call' = [op |-> "to_js", of |-> "Vec", self |-> self]
          /\ out' = to_js(self, to_js_rs)
    /\ UNCHANGED <<defs, to_js_rs, pc>>

\* <(A, B) as ToJS>::to_js and <(A, B, C) as ToJS>::to_js
TupleToJs ==
    /\ pc = "ready"
    /\ \E self \in TupleValues :
          /\ call' = [op |-> "to_js", of |-> "Tuple", self |-> self]
          /\ out' = to_js(self, to_js_rs)
    /\ UNCHANGED <<defs, to_js_rs, pc>>

\* <Punctuated<T, P> as ToJS>::to_js
PunctuatedCall ==
    /\ pc = "ready"
    /\ \E self \in PunctuatedValues :
          /\ call' = [op |-> "to_js", of |-> "Punctuated", self |-> self]
          /\ out' = to_js(self, to_js_rs)
    /\ UNCHANGED <<defs, to_js_rs, pc>>

NextConv == Main \/ VecToJs \/ TupleToJs \/ PunctuatedCall

SpecConv == InitConv /\ [][NextConv]_vars

ConvCall(of) == call.op = "to_js" /\ call.of = of

\* C2: the length written for a Punctuated of n elements is 0 when n = 0, 2n
\* with a trailing separator and 2n - 1 without, and the items were written
\* at the indices 0 .. length - 1.
C2_PunctuatedLength ==
    ConvCall("Punctuated") =>
        LET n == Len(call.self.inner) + Len(call.self.last)
            trailing == n > 0 /\ call.self.last = <<>>
            length == IF n = 0 THEN 0 ELSE IF trailing THEN 2 * n ELSE 2 * n - 1
        IN /\ HasKey(out, Name("length"))
           /\ ValueAt(out, Name("length")) = JsNumber(length)
           /\ Written(out) =
                  <<Name("_type")>> \o [i \in 1..length |-> Index(i - 1)]
                  \o <<Name("length")>>

\* A list of two elements with a trailing separator got length 4.
C2_Witness ==
    /\ ConvCall("Punctuated")
    /\ Len(call.self.inner) = 2
    /\ call.self.last = <<>>
    /\ ValueAt(out, Name("length")) = JsNumber(4)

\* The converted elements of an indexed sequence, and its length: those of a
\* host Array, or the indexed writes and the length write of an Object.
ElementsOf(v) ==
    IF v.js = "Array" THEN v.items
    ELSE LET idx == SelectSeq(v.sets, LAMBDA w : w.key.k = "idx")
         IN [i \in 1..Len(idx) |-> idx[i].value]
LengthOf(v) ==
    IF v.js = "Array" THEN Len(v.items)
    ELSE IF HasKey(v, Name("length")) THEN ValueAt(v, Name("length")).v ELSE -1

InOrder(v, items) ==
    /\ ElementsOf(v) = [i \in 1..Len(items) |-> to_js(items[i], to_js_rs)]
    /\ LengthOf(v) = Len(items)

Ok(v) == [ok |-> TRUE, val |-> v]
Err(v) == [ok |-> FALSE, val |-> v]

\* A syn::Error: what to_string() and span() give.
Error(message, span) == [message |-> message, span |-> span]

\* An error's span starts no later than it ends.
ErrorSpans ==
    {Span(LineColumn(p[1], 3), LineColumn(p[2], 4)) :
        p \in {q \in (1..MaxLine) \X (1..MaxLine) : q[1] <= q[2]}}

Errors ==
    {Error(m, sp) :
        m \in {"expected identifier", "unexpected end of input"}, sp \in ErrorSpans}

\* syn_serde::json::to_string: the text that encodes the tree.
json_to_string(ast) == [rs |-> "String", v |-> "json", doc |-> <<ast>>]

\* impl ToJS for syn::Error.  The line is a usize cast to u32; both are 32 bits
\* wide on the wasm32 target, so the cast keeps the value.
ErrorToJs_EndLine(err) ==
    [js |-> "SyntaxError", msg |-> err.message,
     lineNumber |-> err.span.end.line]
ErrorToJs(err) ==
    [js |-> "SyntaxError", msg |-> err.message,
     lineNumber |-> err.span.start.line]

\* The Ok arm of parse_file.
parse_file_ok(ast, gen) == Ok(to_js(json_to_string(ast), gen))

\* The Ok arm of parse_derive_input.
parse_derive_input_ok_Encoded(ast, gen) == Ok(to_js(json_to_string(ast), gen))
parse_derive_input_ok(ast, gen) == Ok(to_js(ast, gen))

EntrySchemas ==
    {Definitions(<<Node("DeriveInput", Struct(fs)), MacroDelimiterNode>>) :
        fs \in FieldLists}

\* The syn::File values the parser may answer.
Files ==
    {SynStruct("File", <<Entry("items", Vec(items))>>, sp) :
        items \in SeqsUpTo({U32(0)}, 1), sp \in Spans}

InitEntry ==
    /\ defs \in EntrySchemas
    /\ to_js_rs = <<>>
    /\ pc = "build"
    /\ call = NoCall
    /\ out = UNDEFINED

\* pub fn parse_file
ParseFile ==
    /\ pc = "ready"
    /\ \/ \E ast \in Files :
             /\ call' = [op |-> "parse_file", ok |-> TRUE, ast |-> ast]
             /\ out' = parse_file_ok(ast, to_js_rs)
       \/ \E err \in Errors :
             /\ call' = [op |-> "parse_file", ok |-> FALSE, err |-> err]
             /\ out' = Err(ErrorToJs(err))
    /\ UNCHANGED <<defs, to_js_rs, pc>>

\* pub fn parse_derive_input
ParseDeriveInput ==
    /\ pc = "ready"
    /\ \/ \E ast \in ValuesOfNode(defs.types[1]) :
             /\ call' = [op |-> "parse_derive_input", ok |-> TRUE, ast |-> ast]
             /\ out' = parse_derive_input_ok(ast, to_js_rs)
       \/ \E err \in Errors :
             /\ call' = [op |-> "parse_derive_input", ok |-> FALSE, err |-> err]
             /\ out' = Err(ErrorToJs(err))
    /\ UNCHANGED <<defs, to_js_rs, pc>>

NextEntry == Main \/ ParseFile \/ ParseDeriveInput

SpecEntry == InitEntry /\ [][NextEntry]_vars

IsParse == call.op \in {"parse_file", "parse_derive_input"}

\* C5: when the parser rejects the text, both entry points return Err of a
\* SyntaxError that carries the parser's message and, as line number, the
\* 1-based start line of the error's span.
C5_ParseErrorIsStructured ==
    (IsParse /\ ~call.ok) =>
        /\ ~out.ok
        /\ out.val.js = "SyntaxError"
        /\ out.val.msg = call.err.message
        /\ out.val.lineNumber = call.err.span.start.line
        /\ out.val.lineNumber >= 1

\* parse_derive_input failed on an error that starts on line 1 and ends on
\* line 2.
C5_Witness ==
    /\ call.op = "parse_derive_input"
    /\ ~call.ok
    /\ call.err.span.start.line = 1
    /\ call.err.span.end.line = 2
    /\ out.val.lineNumber = 1

\* The value is the text that encodes the tree.
IsEncodingOf(v, ast) == v.js = "string" /\ v.doc = <<ast>>

\* C6 as stated: on success parse_derive_input, like parse_file, returns the
\* encoded form of the tree.
C6_BothReturnEncodedForm ==
    (IsParse /\ call.ok) => (out.ok /\ IsEncodingOf(out.val, call.ast))

\* C6 amended: on success parse_file returns the encoded form of the tree,
\* and parse_derive_input returns the tree converted by ToJS, an object
\* tagged "DeriveInput".
C6_OnlyParseFileReturnsEncodedForm ==
    /\ (call.op = "parse_file" /\ call.ok) =>
          (out.ok /\ IsEncodingOf(out.val, call.ast))
    /\ (call.op = "parse_derive_input" /\ call.ok) =>
          /\ out.ok
          /\ out.val = to_js(call.ast, to_js_rs)
          /\ out.val.js = "Object"
          /\ TagOf(out.val) = "DeriveInput"

\* parse_derive_input succeeded on a declaration with fields.
C6_Witness ==
    /\ call.op = "parse_derive_input"
    /\ call.ok
    /\ Len(call.ast.fields) >= 1
    /\ out.ok

====
